---- MODULE Spec2Model ----
(***************************************************************************)
(* Model of src/src/gpu.ts: the WebGPU bouncing-balls demonstration.       *)
(*                                                                         *)
(* Spec        the whole program: start-up, then the frame loop (host)     *)
(*             running against the device queue, which executes the        *)
(*             submitted commands asynchronously and in submission order.  *)
(* KernelSpec  one dispatch of the WGSL kernel `main`, every invocation    *)
(*             advancing statement by statement, interleaved freely with   *)
(*             the other invocations of the grid.                          *)
(*                                                                         *)
(* f32 values are fixed-point integers in thousandths (2.0 is 2000), so    *)
(* TIME_STEP = 0.016 is 16 and products are rounded to the nearest         *)
(* thousandth, symmetrically in the sign.  Colour channels are kept in     *)
(* halves (0.5 is 1).                                                      *)
(***************************************************************************)
EXTENDS Integers, Sequences, FiniteSets, TLC

VARIABLES
    pc,             \* host: the next step of the program
    error,          \* host: message of the uncaught Error, "" when none
    inputBalls,     \* host: let inputBalls (Float32Array)
    computedOutput, \* host: computedOutput of the last READ
    color,          \* host: let color
    addColor,       \* host: let addColor
    encoder,        \* host: commands recorded in commandEncoder
    raf,            \* browser: state of the requested animation frame
    buffers,        \* device: contents of the four GPUBuffers
    queue,          \* device: device.queue, commands not yet executed
    mapState,       \* device: stagingBuffer.mapState
    accessed,       \* device: storage accesses of the last dispatch
    inv,            \* device (KernelSpec): state of every invocation of the grid
    initBalls,      \* history: inputBalls as created at start-up
    frame,          \* history: frames completed (SWAPs), counted up to MaxFrame
    trace,          \* history: steps of the current frame, in the order performed
    inFlight,       \* history: frames uploaded and not yet swapped
    uploaded,       \* history: data handed to the last writeBuffer(input, ...)
    rendered        \* history: arguments of the last renderBalls call

vars == <<pc, error, inputBalls, computedOutput, color, addColor, encoder, raf,
          buffers, queue, mapState, accessed, inv, initBalls, frame, trace,
          inFlight, uploaded, rendered>>

(***************************************************************************)
(* Bounds of the model.                                                    *)
(***************************************************************************)
\* numBalls is 200 in the source (gpu.ts:200); the model runs a small set.
numBalls == 2
\* canvas.width and canvas.height, read from the page (1000 x 800 there).
canvasWidth == 3
canvasHeight == 2
\* Math.random() is sampled at k / RandSteps, k = 0 .. RandSteps - 1.
RandSteps == 2
\* The colour bound, 255 in the source (gpu.ts:295, gpu.ts:360).
ColorMax == 3
\* frame counts completed frames up to MaxFrame and stays there.
MaxFrame == 2
\* KernelSpec dispatches grids of numBalls .. numBalls + MaxOverDispatch.
MaxOverDispatch == 1

(***************************************************************************)
(* Program constants.                                                      *)
(***************************************************************************)
BYTES_PER_ELEMENT == 4
WORKGROUP_SIZE == 64
TIME_STEP == 16

BUFFER_SIZE == numBalls * 6 * BYTES_PER_ELEMENT

(***************************************************************************)
(* Fixed-point f32.                                                        *)
(***************************************************************************)
Abs(x) == IF x < 0 THEN -x ELSE x

\* an integer (i32, or an integer literal) as f32
f32(i) == i * 1000

\* a * b in f32
FMul(a, b) ==
    LET m == ((Abs(a * b) + 500) \div 1000)
    IN  IF (a < 0) # (b < 0) THEN -m ELSE m

Ceil(a, b) == (a + b - 1) \div b

\* a typed array / buffer of n zero elements
Zeros(n) == [j \in 0 .. n - 1 |-> 0]

NumFloats == BUFFER_SIZE \div BYTES_PER_ELEMENT

(***************************************************************************)
(* randomBetween: Math.random() = k / RandSteps.                           *)
(***************************************************************************)
MathRandom == 0 .. RandSteps - 1

randomBetween(min, max, k) ==
    LET lo == IF min > max THEN max ELSE min
        hi == IF min > max THEN min ELSE max
    IN  (k * (hi - lo)) \div RandSteps + lo

(***************************************************************************)
(* The bind group and the kernel.                                          *)
(***************************************************************************)
\* the bind group with the input buffer bound to binding 1 as well
bindGroup_Aliased == (0 :> "input") @@ (1 :> "input") @@ (2 :> "uniformsBuffer")

bindGroup == (0 :> "input") @@ (1 :> "output") @@ (2 :> "uniformsBuffer")

\* arrayLength of a runtime-sized array<Ball> (stride 24 bytes = 6 f32)
arrayLength(buf) == Cardinality(DOMAIN buf) \div 6

\* an index outside the array is clamped into it (robust buffer access)
ArrayIndex(g, buf) ==
    IF g < arrayLength(buf) THEN g ELSE arrayLength(buf) - 1

\* struct Ball at element g: radius at 0, position at 8, velocity at 16 bytes
LoadBall(buf, g) ==
    [radius   |-> buf[6 * g],
     position |-> <<buf[6 * g + 2], buf[6 * g + 3]>>,
     velocity |-> <<buf[6 * g + 4], buf[6 * g + 5]>>]

StoreBall(buf, g, b) ==
    [j \in DOMAIN buf |->
        IF j = 6 * g THEN b.radius
        ELSE IF j = 6 * g + 2 THEN b.position[1]
        ELSE IF j = 6 * g + 3 THEN b.position[2]
        ELSE IF j = 6 * g + 4 THEN b.velocity[1]
        ELSE IF j = 6 * g + 5 THEN b.velocity[2]
        ELSE buf[j]]

NoBall == [radius |-> 0, position |-> <<0, 0>>, velocity |-> <<0, 0>>]

NewInvocation == [pc |-> "guard", src_ball |-> NoBall]

Access(g, kind, binding, mem) ==
    [gid |-> g, kind |-> kind, buffer |-> bindGroup[binding],
     slot |-> IF binding = 2 THEN 0 ELSE ArrayIndex(g, mem[bindGroup[binding]])]

\* the bounds guard with > for >=
KGuard_OffByOne(g, st, mem) ==
    [st  |-> [st EXCEPT !.pc = IF g > arrayLength(mem[bindGroup[1]])
                                 THEN "done" ELSE "copy"],
     mem |-> mem,
     acc |-> {}]

\* if (global_id.x >= arrayLength(&output)) { return; }
KGuard(g, st, mem) ==
    [st  |-> [st EXCEPT !.pc = IF g >= arrayLength(mem[bindGroup[1]])
                                 THEN "done" ELSE "copy"],
     mem |-> mem,
     acc |-> {}]

\* the copy done field by field, the radius left out
KCopy_NoRadius(g, st, mem) ==
    LET in  == mem[bindGroup[0]]
        out == mem[bindGroup[1]]
        src == LoadBall(in, ArrayIndex(g, in))
        d   == LoadBall(out, ArrayIndex(g, out))
    IN  [st  |-> [pc |-> "integrate", src_ball |-> src],
         mem |-> [mem EXCEPT ![bindGroup[1]] =
                        StoreBall(out, ArrayIndex(g, out),
                                  [src EXCEPT !.radius = d.radius])],
         acc |-> {Access(g, "read", 0, mem), Access(g, "write", 1, mem)}]

\* let src_ball = input[global_id.x]; (*dst_ball) = src_ball;
KCopy(g, st, mem) ==
    LET in  == mem[bindGroup[0]]
        out == mem[bindGroup[1]]
        src == LoadBall(in, ArrayIndex(g, in))
    IN  [st  |-> [pc |-> "integrate", src_ball |-> src],
         mem |-> [mem EXCEPT ![bindGroup[1]] =
                        StoreBall(out, ArrayIndex(g, out), src)],
         acc |-> {Access(g, "read", 0, mem), Access(g, "write", 1, mem)}]

\* the integration with the factor TIME_STEP left out
KIntegrate_NoTimeStep(g, st, mem) ==
    LET out == mem[bindGroup[1]]
        d   == LoadBall(out, ArrayIndex(g, out))
        p   == <<d.position[1] + d.velocity[1], d.position[2] + d.velocity[2]>>
    IN  [st  |-> [st EXCEPT !.pc = "reflectX"],
         mem |-> [mem EXCEPT ![bindGroup[1]] =
                        StoreBall(out, ArrayIndex(g, out),
                                  [d EXCEPT !.position = p])],
         acc |-> {Access(g, "read", 1, mem), Access(g, "write", 1, mem)}]

\* the integration with the sum taken before the product
KIntegrate_SumFirst(g, st, mem) ==
    LET out == mem[bindGroup[1]]
        d   == LoadBall(out, ArrayIndex(g, out))
        p   == <<FMul(d.position[1] + d.velocity[1], TIME_STEP),
                 FMul(d.position[2] + d.velocity[2], TIME_STEP)>>
    IN  [st  |-> [st EXCEPT !.pc = "reflectX"],
         mem |-> [mem EXCEPT ![bindGroup[1]] =
                        StoreBall(out, ArrayIndex(g, out),
                                  [d EXCEPT !.position = p])],
         acc |-> {Access(g, "read", 1, mem), Access(g, "write", 1, mem)}]

\* (*dst_ball).position = (*dst_ball).position + (*dst_ball).velocity * TIME_STEP;
KIntegrate(g, st, mem) ==
    LET out == mem[bindGroup[1]]
        d   == LoadBall(out, ArrayIndex(g, out))
        p   == <<d.position[1] + FMul(d.velocity[1], TIME_STEP),
                 d.position[2] + FMul(d.velocity[2], TIME_STEP)>>
    IN  [st  |-> [st EXCEPT !.pc = "reflectX"],
         mem |-> [mem EXCEPT ![bindGroup[1]] =
                        StoreBall(out, ArrayIndex(g, out),
                                  [d EXCEPT !.position = p])],
         acc |-> {Access(g, "read", 1, mem), Access(g, "write", 1, mem)}]

\* the reflection branch of axis a (1 = x against canvasWidth, 2 = y against
\* canvasHeight): the velocity is taken from src_ball
KReflect(g, st, mem, a, next) ==
    LET out    == mem[bindGroup[1]]
        d      == LoadBall(out, ArrayIndex(g, out))
        extent == mem[bindGroup[2]][a - 1]
        hit    == d.position[a] >= f32(extent) \/ d.position[a] <= 0
        v      == [d.velocity EXCEPT ![a] = FMul(st.src_ball.velocity[a], f32(-1))]
    IN  [st  |-> [st EXCEPT !.pc = next],
         mem |-> IF hit
                 THEN [mem EXCEPT ![bindGroup[1]] =
                          StoreBall(out, ArrayIndex(g, out),
                                    [d EXCEPT !.velocity = v])]
                 ELSE mem,
         acc |-> {Access(g, "read", 1, mem), Access(g, "read", 2, mem)}
                 \cup (IF hit THEN {Access(g, "write", 1, mem)} ELSE {})]

\* the x branch with > for >= and < for <=
KReflectX_Strict(g, st, mem) ==
    LET out == mem[bindGroup[1]]
        d   == LoadBall(out, ArrayIndex(g, out))
        hit == d.position[1] > f32(mem[bindGroup[2]][0]) \/ d.position[1] < 0
        v   == [d.velocity EXCEPT ![1] = FMul(st.src_ball.velocity[1], f32(-1))]
    IN  [st  |-> [st EXCEPT !.pc = "reflectY"],
         mem |-> IF hit
                 THEN [mem EXCEPT ![bindGroup[1]] =
                          StoreBall(out, ArrayIndex(g, out),
                                    [d EXCEPT !.velocity = v])]
                 ELSE mem,
         acc |-> {Access(g, "read", 1, mem), Access(g, "read", 2, mem)}
                 \cup (IF hit THEN {Access(g, "write", 1, mem)} ELSE {})]

\* the x branch with the test against 0 left out
KReflectX_UpperOnly(g, st, mem) ==
    LET out == mem[bindGroup[1]]
        d   == LoadBall(out, ArrayIndex(g, out))
        hit == d.position[1] >= f32(mem[bindGroup[2]][0])
        v   == [d.velocity EXCEPT ![1] = FMul(st.src_ball.velocity[1], f32(-1))]
    IN  [st  |-> [st EXCEPT !.pc = "reflectY"],
         mem |-> IF hit
                 THEN [mem EXCEPT ![bindGroup[1]] =
                          StoreBall(out, ArrayIndex(g, out),
                                    [d EXCEPT !.velocity = v])]
                 ELSE mem,
         acc |-> {Access(g, "read", 1, mem), Access(g, "read", 2, mem)}
                 \cup (IF hit THEN {Access(g, "write", 1, mem)} ELSE {})]

\* the x branch turning the velocity towards the inside instead of negating it
KReflectX_Inward(g, st, mem) ==
    LET out  == mem[bindGroup[1]]
        d    == LoadBall(out, ArrayIndex(g, out))
        high == d.position[1] >= f32(mem[bindGroup[2]][0])
        hit  == high \/ d.position[1] <= 0
        v    == [d.velocity EXCEPT ![1] = IF high THEN -Abs(st.src_ball.velocity[1])
                                          ELSE Abs(st.src_ball.velocity[1])]
    IN  [st  |-> [st EXCEPT !.pc = "reflectY"],
         mem |-> IF hit
                 THEN [mem EXCEPT ![bindGroup[1]] =
                          StoreBall(out, ArrayIndex(g, out),
                                    [d EXCEPT !.velocity = v])]
                 ELSE mem,
         acc |-> {Access(g, "read", 1, mem), Access(g, "read", 2, mem)}
                 \cup (IF hit THEN {Access(g, "write", 1, mem)} ELSE {})]

KReflectX(g, st, mem) == KReflect(g, st, mem, 1, "reflectY")

\* the y branch taking the x component of src_ball's velocity
KReflectY_WrongComponent(g, st, mem) ==
    LET out == mem[bindGroup[1]]
        d   == LoadBall(out, ArrayIndex(g, out))
        hit == d.position[2] >= f32(mem[bindGroup[2]][1]) \/ d.position[2] <= 0
        v   == [d.velocity EXCEPT ![2] = FMul(st.src_ball.velocity[1], f32(-1))]
    IN  [st  |-> [st EXCEPT !.pc = "done"],
         mem |-> IF hit
                 THEN [mem EXCEPT ![bindGroup[1]] =
                          StoreBall(out, ArrayIndex(g, out),
                                    [d EXCEPT !.velocity = v])]
                 ELSE mem,
         acc |-> {Access(g, "read", 1, mem), Access(g, "read", 2, mem)}
                 \cup (IF hit THEN {Access(g, "write", 1, mem)} ELSE {})]

KReflectY(g, st, mem) == KReflect(g, st, mem, 2, "done")

\* one statement of invocation g
KStep(g, st, mem) ==
    CASE st.pc = "guard"     -> KGuard(g, st, mem)
      [] st.pc = "copy"      -> KCopy(g, st, mem)
      [] st.pc = "integrate" -> KIntegrate(g, st, mem)
      [] st.pc = "reflectX"  -> KReflectX(g, st, mem)
      [] st.pc = "reflectY"  -> KReflectY(g, st, mem)

RECURSIVE KRun(_, _, _, _)
KRun(g, st, mem, acc) ==
    IF st.pc = "done"
    THEN [mem |-> mem, acc |-> acc]
    ELSE \* (r is bound to the value of the statement's result)
         CHOOSE x \in {KRun(g, r.st, r.mem, acc \cup r.acc) :
                          r \in {KStep(g, st, mem)}} : TRUE

\* fn main, invocation g run from its first statement to its return
main(g, mem) == KRun(g, NewInvocation, mem, {})

\* a dispatch of the invocations lo .. hi - 1, one after the other
RECURSIVE DispatchRange(_, _, _, _)
DispatchRange(lo, hi, mem, acc) ==
    IF lo >= hi
    THEN [mem |-> mem, acc |-> acc]
    ELSE IF hi = lo + 1
    THEN CHOOSE x \in {[mem |-> r.mem, acc |-> acc \cup r.acc] :
                          r \in {main(lo, mem)}} : TRUE
    ELSE \* the lower half runs first (l is bound to the value of its result)
         LET mid == (lo + hi) \div 2
         IN  CHOOSE x \in {DispatchRange(mid, hi, l.mem, l.acc) :
                              l \in {DispatchRange(lo, mid, mem, acc)}} : TRUE

\* the workgroup count rounded down
Workgroups_Floor == BUFFER_SIZE \div 64

\* passEncoder.dispatchWorkgroups(Math.ceil(BUFFER_SIZE / 64))
Workgroups == Ceil(BUFFER_SIZE, 64)

GridSize(workgroups) == workgroups * WORKGROUP_SIZE

(***************************************************************************)
(* Start-up: the WebGPU checks, the buffers, the initial particle set.     *)
(***************************************************************************)
\* for (let i = 0; i < numBalls; i += 6) { inputBalls[i + 0] = ... }
\* r[i][c] is the Math.random() sample of the c-th call of iteration i
InitialBalls(r) ==
    [j \in 0 .. NumFloats - 1 |->
        LET i == 6 * (j \div 6)
            c == j % 6
        IN  IF i >= numBalls THEN 0
            ELSE CASE c = 0 -> randomBetween(f32(2), f32(10), r[i][0])
                   [] c = 1 -> 0
                   [] c = 2 -> randomBetween(0, f32(canvasWidth), r[i][1])
                   [] c = 3 -> randomBetween(0, f32(canvasHeight), r[i][2])
                   [] c = 4 -> randomBetween(f32(-100), f32(100), r[i][3])
                   [] c = 5 -> randomBetween(f32(-100), f32(100), r[i][4])]

LoopIndices == {i \in 0 .. numBalls - 1 : i % 6 = 0}

\* uniformCanvasArea
UniformCanvasArea == (0 :> canvasWidth) @@ (1 :> canvasHeight)

\* createBuffer: a new buffer is zero-filled
NewBuffers ==
    [input          |-> Zeros(NumFloats),
     output         |-> Zeros(NumFloats),
     uniformsBuffer |-> Zeros(2),
     stagingBuffer  |-> Zeros(NumFloats)]

\* let color = [255, 0, 0], in halves
InitialColor == (0 :> 2 * ColorMax) @@ (1 :> 0) @@ (2 :> 0)

Init ==
    /\ pc = "STARTUP"
    /\ error = ""
    /\ inputBalls = Zeros(NumFloats)
    /\ computedOutput = Zeros(NumFloats)
    /\ color = InitialColor
    /\ addColor = 1
    /\ encoder = <<>>
    /\ raf = "idle"
    /\ buffers = NewBuffers
    /\ queue = <<>>
    /\ mapState = "unmapped"
    /\ accessed = {}
    /\ inv = <<>>
    /\ initBalls = Zeros(NumFloats)
    /\ frame = 0
    /\ trace = <<>>
    /\ inFlight = 0
    /\ uploaded = Zeros(NumFloats)
    /\ rendered = [ballData |-> Zeros(NumFloats), color |-> InitialColor]

\* the error recorded, the set-up going on to the loop
Throw_NotFatal(msg) ==
    /\ pc' = "UPLOAD"
    /\ error' = msg

\* the uncaught Error of a failed step ends the module's evaluation
Throw(msg) ==
    /\ pc' = "FAILED"
    /\ error' = msg

\* lines 73-81, then the set-up up to the first iteration of the loop
Startup ==
    /\ pc = "STARTUP"
    /\ \E gpu \in BOOLEAN, adapter \in BOOLEAN, device \in BOOLEAN :
         IF ~gpu
         THEN /\ Throw("WebGPU not supported")
              /\ UNCHANGED <<inputBalls, initBalls, queue>>
         ELSE IF ~adapter
         THEN /\ Throw("Couldn't request WebGPU adapter.")
              /\ UNCHANGED <<inputBalls, initBalls, queue>>
         ELSE IF ~device
         THEN /\ Throw("Couldn't request WebGPU logical device.")
              /\ UNCHANGED <<inputBalls, initBalls, queue>>
         ELSE /\ \E r \in [LoopIndices -> [0 .. 4 -> MathRandom]] :
                    /\ inputBalls' = InitialBalls(r)
                    /\ initBalls' = InitialBalls(r)
              /\ queue' = <<[op |-> "writeBuffer", buffer |-> "uniformsBuffer",
                             data |-> UniformCanvasArea]>>
              /\ pc' = "UPLOAD"
              /\ error' = error
    /\ UNCHANGED <<computedOutput, color, addColor, encoder, raf, buffers,
                   mapState, accessed, inv, frame, trace, inFlight, uploaded,
                   rendered>>

(***************************************************************************)
(* The frame loop (host).                                                  *)
(***************************************************************************)
\* device.queue.writeBuffer(input, 0, inputBalls)
Upload ==
    /\ pc = "UPLOAD"
    /\ queue' = Append(queue, [op |-> "writeBuffer", buffer |-> "input",
                               data |-> inputBalls])
    /\ encoder' = <<>>
    /\ uploaded' = inputBalls
    /\ trace' = <<"UPLOAD">>
    /\ inFlight' = inFlight + 1
    /\ pc' = "DISPATCH"
    /\ UNCHANGED <<error, inputBalls, computedOutput, color, addColor, raf,
                   buffers, mapState, accessed, inv, initBalls, frame, rendered>>

\* beginComputePass ... dispatchWorkgroups(Math.ceil(BUFFER_SIZE / 64)) ... end
Dispatch ==
    /\ pc = "DISPATCH"
    /\ encoder' = Append(encoder, [op |-> "dispatch", workgroups |-> Workgroups])
    /\ trace' = Append(trace, "DISPATCH")
    /\ pc' = "COPY_OUT"
    /\ UNCHANGED <<error, inputBalls, computedOutput, color, addColor, raf,
                   buffers, queue, mapState, accessed, inv, initBalls, frame,
                   inFlight, uploaded, rendered>>

\* CopyOut with the copy taken from the input buffer
CopyOut_WrongSource ==
    /\ pc = "COPY_OUT"
    /\ LET commands == Append(encoder, [op |-> "copyBufferToBuffer",
                                        src |-> "input", dst |-> "stagingBuffer",
                                        size |-> BUFFER_SIZE])
       IN  queue' = IF mapState = "unmapped" THEN queue \o commands ELSE queue
    /\ encoder' = <<>>
    /\ trace' = Append(trace, "COPY_OUT")
    /\ pc' = "MAP_WAIT"
    /\ UNCHANGED <<error, inputBalls, computedOutput, color, addColor, raf,
                   buffers, mapState, accessed, inv, initBalls, frame, inFlight,
                   uploaded, rendered>>

\* copyBufferToBuffer(output, 0, stagingBuffer, 0, BUFFER_SIZE); finish; submit.
\* A submission that uses a buffer which is not unmapped is a validation
\* error: nothing is enqueued.
CopyOut ==
    /\ pc = "COPY_OUT"
    /\ LET commands == Append(encoder, [op |-> "copyBufferToBuffer",
                                        src |-> "output", dst |-> "stagingBuffer",
                                        size |-> BUFFER_SIZE])
       IN  queue' = IF mapState = "unmapped" THEN queue \o commands ELSE queue
    /\ encoder' = <<>>
    /\ trace' = Append(trace, "COPY_OUT")
    /\ pc' = "MAP_WAIT"
    /\ UNCHANGED <<error, inputBalls, computedOutput, color, addColor, raf,
                   buffers, mapState, accessed, inv, initBalls, frame, inFlight,
                   uploaded, rendered>>

\* stagingBuffer.mapAsync(GPUMapMode.READ, 0, BUFFER_SIZE): the call.  On a
\* buffer that is not unmapped the promise rejects and the await throws.
MapAsync ==
    /\ pc = "MAP_WAIT"
    /\ trace' = Append(trace, "MAP_WAIT")
    /\ IF mapState = "unmapped"
       THEN /\ mapState' = "pending"
            /\ pc' = "MAP_AWAIT"
            /\ error' = error
       ELSE /\ Throw("OperationError")
            /\ mapState' = mapState
    /\ UNCHANGED <<inputBalls, computedOutput, color, addColor, encoder, raf,
                   buffers, queue, accessed, inv, initBalls, frame, inFlight,
                   uploaded, rendered>>

\* MapAwait without the await: the loop goes on before the promise resolved
MapAwait_NoWait ==
    /\ pc = "MAP_AWAIT"
    /\ pc' = "READ"
    /\ UNCHANGED <<error, inputBalls, computedOutput, color, addColor, encoder,
                   raf, buffers, queue, mapState, accessed, inv, initBalls,
                   frame, trace, inFlight, uploaded, rendered>>

\* await stagingBuffer.mapAsync(...): the loop resumes once the promise resolved
MapAwait ==
    /\ pc = "MAP_AWAIT"
    /\ mapState = "mapped"
    /\ pc' = "READ"
    /\ UNCHANGED <<error, inputBalls, computedOutput, color, addColor, encoder,
                   raf, buffers, queue, mapState, accessed, inv, initBalls,
                   frame, trace, inFlight, uploaded, rendered>>

\* Read with unmap() called before the mapped range is copied: the range is
\* detached and the copy throws
Read_UnmapFirst ==
    /\ pc = "READ"
    /\ trace' = Append(trace, "READ")
    /\ mapState' = "unmapped"
    /\ Throw("TypeError")
    /\ UNCHANGED <<inputBalls, computedOutput, color, addColor, encoder, raf,
                   buffers, queue, accessed, inv, initBalls, frame, inFlight,
                   uploaded, rendered>>

\* getMappedRange(0, BUFFER_SIZE).slice(0), new Float32Array(data);
\* getMappedRange throws on a buffer that is not mapped
Read ==
    /\ pc = "READ"
    /\ trace' = Append(trace, "READ")
    /\ IF mapState = "mapped"
       THEN /\ computedOutput' =
                   [j \in 0 .. NumFloats - 1 |-> buffers.stagingBuffer[j]]
            /\ pc' = "UNMAP"
            /\ error' = error
       ELSE /\ Throw("OperationError")
            /\ computedOutput' = computedOutput
    /\ UNCHANGED <<inputBalls, color, addColor, encoder, raf, buffers, queue,
                   mapState, accessed, inv, initBalls, frame, inFlight,
                   uploaded, rendered>>

\* Unmap with the call to unmap() left out
Unmap_Forgotten ==
    /\ pc = "UNMAP"
    /\ trace' = Append(trace, "UNMAP")
    /\ pc' = "SWAP"
    /\ UNCHANGED <<error, inputBalls, computedOutput, color, addColor, encoder,
                   raf, buffers, queue, mapState, accessed, inv, initBalls,
                   frame, inFlight, uploaded, rendered>>

\* stagingBuffer.unmap()
Unmap ==
    /\ pc = "UNMAP"
    /\ mapState' = "unmapped"
    /\ trace' = Append(trace, "UNMAP")
    /\ pc' = "SWAP"
    /\ UNCHANGED <<error, inputBalls, computedOutput, color, addColor, encoder,
                   raf, buffers, queue, accessed, inv, initBalls, frame,
                   inFlight, uploaded, rendered>>

\* if (color[1] >= 255 || color[1] < 0) addColor = addColor * -1
NextAddColor == IF color[1] >= 2 * ColorMax \/ color[1] < 0 THEN -addColor ELSE addColor

\* Swap without the await of the animation frame after it
Swap_NoPresentWait ==
    /\ pc = "SWAP"
    /\ rendered' = [ballData |-> computedOutput, color |-> color]
    /\ addColor' = NextAddColor
    /\ color' = [color EXCEPT ![1] = @ + NextAddColor, ![2] = @ + NextAddColor]
    /\ inputBalls' = computedOutput
    /\ frame' = IF frame < MaxFrame THEN frame + 1 ELSE frame
    /\ inFlight' = inFlight - 1
    /\ trace' = Append(trace, "SWAP")
    /\ pc' = "UPLOAD"
    /\ UNCHANGED <<error, computedOutput, encoder, raf, buffers, queue, mapState,
                   accessed, inv, initBalls, uploaded>>

\* Swap without the assignment inputBalls = computedOutput
Swap_KeepsInput ==
    /\ pc = "SWAP"
    /\ rendered' = [ballData |-> computedOutput, color |-> color]
    /\ addColor' = NextAddColor
    /\ color' = [color EXCEPT ![1] = @ + NextAddColor, ![2] = @ + NextAddColor]
    /\ inputBalls' = inputBalls
    /\ frame' = IF frame < MaxFrame THEN frame + 1 ELSE frame
    /\ inFlight' = inFlight - 1
    /\ trace' = Append(trace, "SWAP")
    /\ pc' = "PRESENT_WAIT"
    /\ UNCHANGED <<error, computedOutput, encoder, raf, buffers, queue, mapState,
                   accessed, inv, initBalls, uploaded>>

\* renderBalls(computedOutput, finalColor); the colour update;
\* inputBalls = computedOutput
Swap ==
    /\ pc = "SWAP"
    /\ rendered' = [ballData |-> computedOutput, color |-> color]
    /\ addColor' = NextAddColor
    /\ color' = [color EXCEPT ![1] = @ + NextAddColor, ![2] = @ + NextAddColor]
    /\ inputBalls' = computedOutput
    /\ frame' = IF frame < MaxFrame THEN frame + 1 ELSE frame
    /\ inFlight' = inFlight - 1
    /\ trace' = Append(trace, "SWAP")
    /\ pc' = "PRESENT_WAIT"
    /\ UNCHANGED <<error, computedOutput, encoder, raf, buffers, queue, mapState,
                   accessed, inv, initBalls, uploaded>>

\* returnAnimationFrame() with a promise that nothing resolves
PresentWait_NeverResolves ==
    /\ pc = "PRESENT_WAIT"
    /\ trace' = Append(trace, "PRESENT_WAIT")
    /\ pc' = "PRESENT_AWAIT"
    /\ UNCHANGED <<error, inputBalls, computedOutput, color, addColor, encoder,
                   raf, buffers, queue, mapState, accessed, inv, initBalls, frame,
                   inFlight, uploaded, rendered>>

\* returnAnimationFrame(): requestAnimationFrame(resolve)
PresentWait ==
    /\ pc = "PRESENT_WAIT"
    /\ raf' = "requested"
    /\ trace' = Append(trace, "PRESENT_WAIT")
    /\ pc' = "PRESENT_AWAIT"
    /\ UNCHANGED <<error, inputBalls, computedOutput, color, addColor, encoder,
                   buffers, queue, mapState, accessed, inv, initBalls, frame,
                   inFlight, uploaded, rendered>>

\* await returnAnimationFrame(): the loop resumes once the frame callback ran
PresentAwait ==
    /\ pc = "PRESENT_AWAIT"
    /\ raf = "fired"
    /\ raf' = "idle"
    /\ pc' = "UPLOAD"
    /\ UNCHANGED <<error, inputBalls, computedOutput, color, addColor, encoder,
                   buffers, queue, mapState, accessed, inv, initBalls, frame,
                   trace, inFlight, uploaded, rendered>>

(***************************************************************************)
(* The browser and the device.                                             *)
(***************************************************************************)
\* the display refresh runs the requested callback
AnimationFrame ==
    /\ raf = "requested"
    /\ raf' = "fired"
    /\ UNCHANGED <<pc, error, inputBalls, computedOutput, color, addColor,
                   encoder, buffers, queue, mapState, accessed, inv, initBalls,
                   frame, trace, inFlight, uploaded, rendered>>

DeviceUnchanged ==
    UNCHANGED <<pc, error, inputBalls, computedOutput, color, addColor, encoder,
                raf, mapState, inv, initBalls, frame, trace, inFlight, uploaded,
                rendered>>

\* the queue executes a writeBuffer
ExecWriteBuffer ==
    /\ queue # <<>>
    /\ Head(queue).op = "writeBuffer"
    /\ buffers' = [buffers EXCEPT ![Head(queue).buffer] = Head(queue).data]
    /\ queue' = Tail(queue)
    /\ accessed' = accessed
    /\ DeviceUnchanged

\* the queue executes the compute pass
ExecDispatch ==
    /\ queue # <<>>
    /\ Head(queue).op = "dispatch"
    /\ \E r \in {DispatchRange(0, GridSize(Head(queue).workgroups), buffers, {})} :
         /\ buffers' = r.mem
         /\ accessed' = r.acc
    /\ queue' = Tail(queue)
    /\ DeviceUnchanged

\* size bytes of src, from offset 0, to dst at offset 0
CopyBuffer(src, dst, size) ==
    [j \in DOMAIN dst |-> IF j < size \div BYTES_PER_ELEMENT THEN src[j] ELSE dst[j]]

\* the queue executes copyBufferToBuffer
ExecCopy ==
    /\ queue # <<>>
    /\ Head(queue).op = "copyBufferToBuffer"
    /\ buffers' = [buffers EXCEPT ![Head(queue).dst] =
                      CopyBuffer(buffers[Head(queue).src], @, Head(queue).size)]
    /\ queue' = Tail(queue)
    /\ accessed' = accessed
    /\ DeviceUnchanged

\* the map request is granted once the operations enqueued before it are done
MapResolve ==
    /\ mapState = "pending"
    /\ queue = <<>>
    /\ mapState' = "mapped"
    /\ UNCHANGED <<pc, error, inputBalls, computedOutput, color, addColor,
                   encoder, raf, buffers, queue, accessed, inv, initBalls,
                   frame, trace, inFlight, uploaded, rendered>>

Next ==
    \/ Startup
    \/ Upload
    \/ Dispatch
    \/ CopyOut
    \/ MapAsync
    \/ MapAwait
    \/ Read
    \/ Unmap
    \/ Swap
    \/ PresentWait
    \/ PresentAwait
    \/ AnimationFrame
    \/ ExecWriteBuffer
    \/ ExecDispatch
    \/ ExecCopy
    \/ MapResolve

Spec == Init /\ [][Next]_vars

(***************************************************************************)
(* KernelSpec: one dispatch, the invocations interleaved statement by      *)
(* statement.                                                              *)
(***************************************************************************)
Ball(r, px, py, vx, vy) ==
    [radius |-> r, position |-> <<px, py>>, velocity |-> <<vx, vy>>]

\* the distance a component of velocity 100 travels in one step
KStride == FMul(f32(100), TIME_STEP)

\* the particles the kernel is run on: W, H the extents, S one stride
KernelCases ==
    LET W == f32(canvasWidth)
        H == f32(canvasHeight)
        V == f32(100)
        S == KStride
    IN  << Ball(0, 0, 0, 0, 0),                                  \* never initialised
           Ball(f32(2), S, S, 0, 0),                             \* at rest, inside
           Ball(f32(10), S \div 2, S \div 2, V \div 2, V \div 4),  \* moving, inside
           Ball(f32(2), W - S, S, V, 0),                         \* x lands on W
           Ball(f32(2), S \div 2, S \div 4, -V, V \div 4),         \* x below 0
           Ball(f32(6), S, H - (S \div 4), -(V \div 2), V),        \* y beyond H
           Ball(f32(2), S \div 2, S, V \div 4, -V),                \* y lands on 0
           Ball(f32(2), W, 0, V, -V),                            \* both axes cross
           Ball(f32(2), W + 3 * S, S \div 2, -V, V \div 4),        \* far beyond W
           Ball(f32(2), -S, S \div 2, V, V \div 4),              \* one stride below 0
           Ball(f32(2), W + S, -S, 0, 0),                        \* at rest, outside
           Ball(f32(2), S \div 2, -(3 * S), V \div 4, V) >>      \* far below 0

\* the Float32Array holding the particles balls[0], balls[1], ...
FlatBalls(balls) ==
    [j \in 0 .. NumFloats - 1 |->
        LET b == balls[j \div 6]
            c == j % 6
        IN  CASE c = 0 -> b.radius
              [] c = 1 -> 0
              [] c = 2 -> b.position[1]
              [] c = 3 -> b.position[2]
              [] c = 4 -> b.velocity[1]
              [] c = 5 -> b.velocity[2]]

KernelInput(s, t) ==
    FlatBalls([k \in 0 .. numBalls - 1 |->
                  KernelCases[((s + k * t) % Len(KernelCases)) + 1]])

KernelInit ==
    /\ pc = "KERNEL"
    /\ error = ""
    /\ \E s \in 0 .. Len(KernelCases) - 1, t \in 0 .. Len(KernelCases) - 1,
          stale \in BOOLEAN :
         /\ inputBalls = KernelInput(s, t)
         /\ uploaded = inputBalls
         \* the output buffer holds zeros (first frame) or the previous
         \* frame's output, which is what was uploaded
         /\ computedOutput = IF stale THEN inputBalls ELSE Zeros(NumFloats)
         /\ buffers = [input          |-> inputBalls,
                       output         |-> computedOutput,
                       uniformsBuffer |-> UniformCanvasArea,
                       stagingBuffer  |-> computedOutput]
    /\ \E grid \in numBalls .. numBalls + MaxOverDispatch :
         inv = [g \in 0 .. grid - 1 |-> NewInvocation]
    /\ color = InitialColor
    /\ addColor = 1
    /\ encoder = <<>>
    /\ raf = "idle"
    /\ queue = <<>>
    /\ mapState = "unmapped"
    /\ accessed = {}
    /\ initBalls = inputBalls
    /\ frame = 0
    /\ trace = <<"UPLOAD", "DISPATCH">>
    /\ inFlight = 1
    /\ rendered = [ballData |-> Zeros(NumFloats), color |-> InitialColor]

\* invocation g executes its next statement
KInvoke(g) ==
    /\ inv[g].pc # "done"
    /\ LET r == KStep(g, inv[g], buffers)
       IN  /\ inv' = [inv EXCEPT ![g] = r.st]
           /\ buffers' = r.mem
           /\ accessed' = accessed \cup r.acc
    /\ UNCHANGED <<pc, error, inputBalls, computedOutput, color, addColor,
                   encoder, raf, queue, mapState, initBalls, frame, trace,
                   inFlight, uploaded, rendered>>

KernelNext == \E g \in DOMAIN inv : KInvoke(g)

KernelSpec == KernelInit /\ [][KernelNext]_vars

(***************************************************************************)
(* Properties of the frame loop (Spec).                                    *)
(***************************************************************************)
FrameOrder ==
    <<"UPLOAD", "DISPATCH", "COPY_OUT", "MAP_WAIT", "READ", "UNMAP", "SWAP",
      "PRESENT_WAIT">>

IsPrefix(s, t) == Len(s) <= Len(t) /\ s = SubSeq(t, 1, Len(s))

\* the steps of the loop at which the host is about to perform a named step
AtStep == {FrameOrder[k] : k \in 1 .. Len(FrameOrder)}

\* a command of the frame loop (anything but the start-up write of the
\* uniforms) has been enqueued and not yet executed
FrameWorkPending ==
    \E k \in 1 .. Len(queue) :
        ~(queue[k].op = "writeBuffer" /\ queue[k].buffer = "uniformsBuffer")

CopyPending ==
    \E k \in 1 .. Len(queue) :
        queue[k].op = "copyBufferToBuffer" /\ queue[k].dst = "stagingBuffer"

InputWritePending ==
    \E k \in 1 .. Len(queue) :
        queue[k].op = "writeBuffer" /\ queue[k].buffer = "input"

\* the host is past the await of mapAsync of the current frame
PastMapWait == pc \in {"READ", "UNMAP", "SWAP", "PRESENT_WAIT", "PRESENT_AWAIT"}

\* C1: the steps of a frame are performed in exactly the order UPLOAD,
\* DISPATCH, COPY_OUT, MAP_WAIT, READ, UNMAP, SWAP, PRESENT_WAIT: the steps
\* performed so far in the frame are always a prefix of that order, the step
\* about to be performed is the next one of it, and an UPLOAD is only begun
\* with the previous frame's eight steps all performed.
C1_FrameOrder ==
    /\ IsPrefix(trace, FrameOrder)
    /\ pc = "UPLOAD" => trace \in {<<>>, FrameOrder}
    /\ (pc \in AtStep /\ pc # "UPLOAD") =>
           /\ Len(trace) < Len(FrameOrder)
           /\ pc = FrameOrder[Len(trace) + 1]
    /\ pc = "MAP_AWAIT" => trace = SubSeq(FrameOrder, 1, 4)
    /\ pc = "PRESENT_AWAIT" => trace = FrameOrder

\* a second frame has begun after a complete first one
C1_Witness == frame >= 1 /\ pc = "DISPATCH" /\ trace = <<"UPLOAD">>

\* C2: at most one frame is in flight: an UPLOAD is begun only when the
\* previous frame was swapped, its map request was granted and released and
\* none of its commands is still enqueued; and the host gets past MAP_WAIT
\* only when the device has executed everything the frame submitted.
C2_OneFrameInFlight ==
    /\ inFlight \in {0, 1}
    /\ pc = "UPLOAD" =>
           /\ inFlight = 0
           /\ mapState = "unmapped"
           /\ ~FrameWorkPending
    /\ PastMapWait => (queue = <<>> /\ mapState # "pending")

\* in the second frame the host waits on the map request while the device
\* has executed none of the frame's commands yet
C2_Witness ==
    /\ frame >= 1
    /\ pc = "MAP_AWAIT"
    /\ mapState = "pending"
    /\ Len(queue) = 3

\* C3: the staging buffer is unmapped, with no map request pending, whenever
\* the loop encodes and submits the copy into it (so each frame's UNMAP
\* precedes the next COPY_OUT); while it is mapped no copy into it is
\* enqueued or executing; and a map request is pending over an unexecuted
\* copy only as the request MAP_WAIT issued behind the copy of its own frame.
C3_StagingExclusive ==
    /\ pc = "COPY_OUT" => mapState = "unmapped"
    /\ (pc = "MAP_WAIT" /\ CopyPending) => mapState = "unmapped"
    /\ mapState = "mapped" => ~CopyPending
    /\ (mapState = "pending" /\ CopyPending) => pc = "MAP_AWAIT"

\* the second frame's copy has been submitted, after the first frame's unmap
C3_Witness == frame >= 1 /\ pc = "MAP_WAIT" /\ CopyPending /\ mapState = "unmapped"

\* C4: the particle set uploaded in the first frame is the initial one; the
\* set uploaded in a later frame is the set read back in the previous frame,
\* which is the output buffer the kernel left; and it reaches the input
\* buffer whole.
C4_Feedback ==
    /\ (frame = 0 /\ trace # <<>>) => uploaded = initBalls
    /\ (frame >= 1 /\ pc \in {"DISPATCH", "COPY_OUT", "MAP_WAIT", "MAP_AWAIT", "READ"}) =>
           uploaded = computedOutput
    /\ (frame >= 1 /\ pc \in {"DISPATCH", "COPY_OUT"}) =>
           uploaded = buffers.output
    /\ (trace # <<>> /\ ~InputWritePending) => buffers.input = uploaded

\* the second frame has uploaded a set that differs from the initial one
C4_Witness ==
    /\ frame >= 1
    /\ pc = "DISPATCH"
    /\ uploaded # initBalls
    /\ uploaded = computedOutput

\* C5: what the host holds after READ is, slot for slot, the output buffer,
\* and the output buffer is what the kernel makes of the set uploaded in the
\* same frame.
C5_StagingRoundTrip ==
    pc \in {"UNMAP", "SWAP"} =>
        /\ computedOutput = buffers.output
        /\ \A i \in 0 .. numBalls - 1 :
               LoadBall(computedOutput, i) =
                   LoadBall(main(i, [buffers EXCEPT !.input = uploaded,
                                                    !.output = Zeros(NumFloats)])
                                .mem.output, i)

\* a read-back, in the second frame, of an output that differs from the input
C5_Witness ==
    /\ frame >= 1
    /\ pc = "UNMAP"
    /\ computedOutput # uploaded
    /\ computedOutput = buffers.output

(***************************************************************************)
(* Properties of the kernel.                                               *)
(***************************************************************************)
\* the particle at slot i of the set that was uploaded, and of the output
InBall(i) == LoadBall(uploaded, i)

OutBall(i) == LoadBall(buffers.output, i)

\* position + velocity * 0.016 on axis a
Stepped(b, a) == b.position[a] + FMul(b.velocity[a], 16)

Extent(a) == IF a = 1 THEN f32(canvasWidth) ELSE f32(canvasHeight)

Crosses(b, a) == Stepped(b, a) >= Extent(a) \/ Stepped(b, a) <= 0

Reflected(b, a) == IF Crosses(b, a) THEN -b.velocity[a] ELSE b.velocity[a]

\* what one step makes of particle b
ExpectedBall(b) ==
    [radius   |-> b.radius,
     position |-> <<Stepped(b, 1), Stepped(b, 2)>>,
     velocity |-> <<Reflected(b, 1), Reflected(b, 2)>>]

Finished(i) == i \in DOMAIN inv /\ inv[i].pc = "done"

AllDone == \A g \in DOMAIN inv : inv[g].pc = "done"

\* the compute pass of the current frame has been executed by the device
DispatchExecuted ==
    /\ pc \in {"MAP_WAIT", "MAP_AWAIT", "READ", "UNMAP", "SWAP", "PRESENT_WAIT",
               "PRESENT_AWAIT"}
    /\ \A k \in 1 .. Len(queue) : queue[k].op # "dispatch"

\* C6: a particle whose new position crosses no boundary on either axis
\* comes out with position + velocity * 0.016 and its velocity unchanged,
\* whatever the size of the grid and whatever the other invocations did.
C6_Integration ==
    \A i \in 0 .. numBalls - 1 :
        (Finished(i) /\ ~Crosses(InBall(i), 1) /\ ~Crosses(InBall(i), 2)) =>
            /\ OutBall(i).position = <<Stepped(InBall(i), 1), Stepped(InBall(i), 2)>>
            /\ OutBall(i).velocity = InBall(i).velocity

\* a moving particle that crossed nothing, in a grid larger than the set
C6_Witness ==
    /\ AllDone
    /\ Cardinality(DOMAIN inv) > numBalls
    /\ \E i \in 0 .. numBalls - 1 :
          /\ ~Crosses(InBall(i), 1) /\ ~Crosses(InBall(i), 2)
          /\ InBall(i).velocity[1] # 0 /\ InBall(i).velocity[2] # 0
          /\ OutBall(i).position # InBall(i).position

\* C7: on each axis the output velocity component is the negated input
\* component exactly when the new position on that axis is >= the extent or
\* <= 0, and the input component otherwise.
C7_ReflectionSignRule ==
    \A i \in 0 .. numBalls - 1 : \A a \in {1, 2} :
        Finished(i) => OutBall(i).velocity[a] = Reflected(InBall(i), a)

\* a particle that crossed on x alone, moving on both axes
C7_Witness ==
    \E i \in 0 .. numBalls - 1 :
        /\ Finished(i)
        /\ Crosses(InBall(i), 1) /\ ~Crosses(InBall(i), 2)
        /\ InBall(i).velocity[1] # 0 /\ InBall(i).velocity[2] # 0
        /\ OutBall(i).velocity[1] = -InBall(i).velocity[1]
        /\ OutBall(i).velocity[2] = InBall(i).velocity[2]

\* C8: in the loop's dispatch of ceil(BUFFER_SIZE / 64) workgroups of 64 no
\* invocation with an index >= the particle count reads or writes anything,
\* no access falls outside slots 0 .. particle count - 1, the output buffer
\* keeps its size, and slot i holds what invocation i alone makes of the
\* uploaded set.
C8_OverDispatchSafe ==
    /\ \A a \in accessed : a.gid < numBalls /\ a.slot \in 0 .. numBalls - 1
    /\ DOMAIN buffers.output = 0 .. NumFloats - 1
    /\ DispatchExecuted =>
           \A i \in 0 .. numBalls - 1 :
               OutBall(i) =
                   LoadBall(main(i, [buffers EXCEPT !.input = uploaded,
                                                    !.output = Zeros(NumFloats)])
                                .mem.output, i)

\* a dispatch of more invocations than particles has been executed
C8_Witness ==
    /\ DispatchExecuted
    /\ frame >= 1
    /\ GridSize(Workgroups) > numBalls
    /\ accessed # {}
    /\ buffers.output # uploaded

\* C9: the dispatched grid contains every index below the particle count,
\* and after the dispatch every output slot has been written by exactly one
\* invocation, the one of its index, which read the input slot of that index;
\* the slot holds the step of that input particle, not an earlier value.
C9_DispatchCoverage ==
    DispatchExecuted =>
        \A i \in 0 .. numBalls - 1 :
            /\ i < GridSize(Workgroups)
            /\ {a.gid : a \in {b \in accessed : b.kind = "write"
                                 /\ b.buffer = "output" /\ b.slot = i}} = {i}
            /\ {a.slot : a \in {b \in accessed : b.kind = "read"
                                  /\ b.buffer = "input" /\ b.gid = i}} = {i}
            /\ OutBall(i) = ExpectedBall(InBall(i))

\* a second dispatch has replaced the output of the first
C9_Witness ==
    /\ DispatchExecuted
    /\ frame >= 1
    /\ pc = "READ"
    /\ \E i \in 0 .. numBalls - 1 : OutBall(i).position # InBall(i).position

\* the dispatch of the same grid with the invocations run one after the other
SequentialOutput ==
    DispatchRange(0, Cardinality(DOMAIN inv),
                  [buffers EXCEPT !.input = uploaded, !.output = computedOutput],
                  {}).mem.output

\* C10 as stated: invocation i reads only input slot i and the uniforms and
\* writes only output slot i, bindings 0 and 1 are distinct buffers, and the
\* output of the dispatch is that of the sequential run for every
\* interleaving.
C10_AsStated ==
    /\ \A a \in accessed :
          /\ a.kind = "read" =>
                \/ a.buffer = "input" /\ a.slot = a.gid
                \/ a.buffer = "uniformsBuffer"
          /\ a.kind = "write" => (a.buffer = "output" /\ a.slot = a.gid)
    /\ bindGroup[0] # bindGroup[1]
    /\ buffers.input = uploaded
    /\ AllDone => buffers.output = SequentialOutput

\* C10, amended: invocation i reads only input slot i, the uniforms and its
\* own output slot i (read back after it was written), and writes only
\* output slot i; bindings 0 and 1 are distinct buffers, the input buffer is
\* not changed, and the output of the dispatch is that of the sequential run
\* for every interleaving of the invocations' statements.
C10_ParallelMap ==
    /\ \A a \in accessed :
          /\ a.kind = "read" =>
                \/ a.buffer = "input" /\ a.slot = a.gid
                \/ a.buffer = "uniformsBuffer"
                \/ a.buffer = "output" /\ a.slot = a.gid
          /\ a.kind = "write" => (a.buffer = "output" /\ a.slot = a.gid)
    /\ bindGroup[0] # bindGroup[1]
    /\ buffers.input = uploaded
    /\ AllDone => buffers.output = SequentialOutput

\* a finished dispatch, larger than the set, in which an invocation read its
\* own output slot and the output differs from the input
C10_Witness ==
    /\ AllDone
    /\ Cardinality(DOMAIN inv) > numBalls
    /\ \E a \in accessed : a.kind = "read" /\ a.buffer = "output"
    /\ buffers.output # buffers.input

(***************************************************************************)
(* Properties of the particle data over the frames (Spec).                 *)
(***************************************************************************)
Slots == 0 .. numBalls - 1

Axes == {1, 2}

\* the start-up completed: the particle set exists
Initialized == pc \notin {"STARTUP", "FAILED"}

\* C11: radius positivity.  After initialization and in every later frame,
\* every one of the numBalls particles of the input particle set and of the
\* output particle set has a radius greater than zero.
C11_RadiusPositive ==
    Initialized =>
        \A i \in Slots :
            /\ LoadBall(inputBalls, i).radius > 0
            /\ (trace # <<>>) => InBall(i).radius > 0
            /\ DispatchExecuted => OutBall(i).radius > 0

\* the particle of slot i at creation
InitBall(i) == LoadBall(initBalls, i)

\* some frame has been read back into computedOutput
ReadBack == frame >= 1 \/ pc \in {"UNMAP", "SWAP", "PRESENT_WAIT", "PRESENT_AWAIT"}

\* C12: radius immutability.  For every slot and every frame the radius in
\* the kernel's output, and hence in the next frame's input, equals the
\* radius the slot had at creation, whether or not the particle crossed a
\* boundary.
C12_RadiusImmutable ==
    Initialized =>
        \A i \in Slots :
            /\ LoadBall(inputBalls, i).radius = InitBall(i).radius
            /\ (trace # <<>>) => InBall(i).radius = InitBall(i).radius
            /\ DispatchExecuted => OutBall(i).radius = InitBall(i).radius
            /\ ReadBack => LoadBall(computedOutput, i).radius = InitBall(i).radius

\* in a later frame a particle with a radius crosses a boundary and comes
\* out with the radius of its creation
C12_Witness ==
    /\ frame >= 1
    /\ DispatchExecuted
    /\ \E i \in Slots, a \in Axes :
         /\ InitBall(i).radius > 0
         /\ Crosses(InBall(i), a)
         /\ OutBall(i).radius = InitBall(i).radius

(***************************************************************************)
(* FrameLoopSpec: the frame loop of lines 297-368 run on a given particle  *)
(* set, for the properties that speak of particles wherever they are.      *)
(***************************************************************************)
\* the state at the head of the loop, the particle set being one of the
\* KernelInput sets
FrameLoopInit ==
    /\ pc = "UPLOAD"
    /\ error = ""
    /\ \E s \in 0 .. Len(KernelCases) - 1, t \in 0 .. Len(KernelCases) - 1 :
         inputBalls = KernelInput(s, t)
    /\ initBalls = inputBalls
    /\ computedOutput = Zeros(NumFloats)
    /\ color = InitialColor
    /\ addColor = 1
    /\ encoder = <<>>
    /\ raf = "idle"
    /\ buffers = NewBuffers
    /\ queue = <<[op |-> "writeBuffer", buffer |-> "uniformsBuffer",
                  data |-> UniformCanvasArea]>>
    /\ mapState = "unmapped"
    /\ accessed = {}
    /\ inv = <<>>
    /\ frame = 0
    /\ trace = <<>>
    /\ inFlight = 0
    /\ uploaded = Zeros(NumFloats)
    /\ rendered = [ballData |-> Zeros(NumFloats), color |-> InitialColor]

\* the loop, observed for MaxFrame frames
FrameLoopNext ==
    \/ (frame < MaxFrame /\ Upload)
    \/ Dispatch
    \/ CopyOut
    \/ MapAsync
    \/ MapAwait
    \/ Read
    \/ Unmap
    \/ Swap
    \/ PresentWait
    \/ PresentAwait
    \/ AnimationFrame
    \/ ExecWriteBuffer
    \/ ExecDispatch
    \/ ExecCopy
    \/ MapResolve

FrameLoopSpec == FrameLoopInit /\ [][FrameLoopNext]_vars

\* C13: zero-velocity fixpoint.  A particle whose velocity is zero (on an
\* axis) keeps its position (on that axis) in every frame the loop runs,
\* wherever it is: inside, on the boundary or outside it.
C13_ZeroVelocityFixpoint ==
    \A i \in Slots, a \in Axes :
        InitBall(i).velocity[a] = 0 =>
            /\ LoadBall(inputBalls, i).position[a] = InitBall(i).position[a]
            /\ LoadBall(inputBalls, i).velocity[a] = 0
            /\ (trace # <<>>) => InBall(i).position[a] = InitBall(i).position[a]
            /\ DispatchExecuted => /\ OutBall(i).position[a] = InitBall(i).position[a]
                                   /\ OutBall(i).velocity[a] = 0
            /\ ReadBack =>
                 LoadBall(computedOutput, i).position[a] = InitBall(i).position[a]

\* a particle at rest outside the boundary has gone through two frames
C13_Witness ==
    /\ frame >= 2
    /\ \E i \in Slots :
         /\ InitBall(i).velocity = <<0, 0>>
         /\ InitBall(i).position[1] > Extent(1)
         /\ InitBall(i).position[2] < 0
         /\ LoadBall(inputBalls, i).position = InitBall(i).position

(***************************************************************************)
(* The colour (Spec).  Channel values are counted in halves: 2 * ColorMax  *)
(* stands for 255, a step of 1 for addColor = 0.5.                         *)
(***************************************************************************)
\* C14: colour evolution.  In every frame green and blue, both the values
\* used for rendering and the values stored after the per-frame update, lie
\* within [0, 255] and move by the fixed step once per frame, reversing at
\* either bound; red stays at 255.
C14_ColorWithinRange ==
    /\ color[0] = 2 * ColorMax
    /\ rendered.color[0] = 2 * ColorMax
    /\ addColor \in {1, -1}
    /\ \A k \in {1, 2} :
         /\ color[k] \in 0 .. 2 * ColorMax
         /\ rendered.color[k] \in 0 .. 2 * ColorMax

(***************************************************************************)
(* Start-up failure (Spec).                                                *)
(***************************************************************************)
StartupErrors ==
    {"WebGPU not supported", "Couldn't request WebGPU adapter.",
     "Couldn't request WebGPU logical device."}

\* C15: start-up failure is fatal.  Without WebGPU support, adapter or
\* device an error is raised before the frame loop starts: nothing is ever
\* uploaded, dispatched or rendered, and nothing is attempted again.
C15_StartupFailureFatal ==
    error \in StartupErrors =>
        /\ pc = "FAILED"
        /\ ~ENABLED Next
        /\ trace = <<>>
        /\ frame = 0
        /\ inFlight = 0
        /\ queue = <<>>
        /\ encoder = <<>>
        /\ buffers = NewBuffers
        /\ uploaded = Zeros(NumFloats)
        /\ rendered = [ballData |-> Zeros(NumFloats), color |-> InitialColor]
        /\ raf = "idle"
        /\ mapState = "unmapped"

\* the device request yielded nothing
C15_Witness ==
    /\ pc = "FAILED"
    /\ error = "Couldn't request WebGPU logical device."

(***************************************************************************)
(* Particles at the boundary.                                              *)
(***************************************************************************)
\* the position of b on axis a lies within [0, extent]
Inside(b, a) == 0 <= b.position[a] /\ b.position[a] <= Extent(a)

Outside(b, a) == ~Inside(b, a)

\* C16: one-frame overshoot.  A particle that starts inside the boundary is
\* never outside it on the same axis in two consecutive frames: when a step
\* takes its position on an axis from within [0, extent] to outside, the
\* following step takes it back within.
C16_OneFrameOvershoot ==
    DispatchExecuted =>
        \A i \in Slots, a \in Axes :
            Inside(InitBall(i), a) =>
                /\ ~(Outside(InBall(i), a) /\ Outside(OutBall(i), a))
                /\ (frame = 1 /\ Outside(InBall(i), a)) => Inside(OutBall(i), a)

\* a particle that a step took outside on x is back inside after the next
C16_Witness ==
    /\ DispatchExecuted
    /\ frame >= 2
    /\ \E i \in Slots :
         /\ Inside(InitBall(i), 1)
         /\ Outside(InBall(i), 1)
         /\ Inside(OutBall(i), 1)
         /\ OutBall(i).position[1] # InBall(i).position[1]

\* the position of b on axis a is beyond the boundary by more than the
\* distance of one step
FarOutside(b, a) ==
    LET travel == FMul(Abs(b.velocity[a]), TIME_STEP)
    IN  \/ b.position[a] > Extent(a) + travel
        \/ b.position[a] < -travel

\* C17: persisting outside.  A particle whose position on an axis lies
\* beyond the boundary by more than one step's travel is outside [0, extent]
\* on that axis in every later frame, and the sign of its velocity on that
\* axis flips in every frame.
C17_PersistingOutside ==
    \A i \in Slots, a \in Axes :
        FarOutside(InitBall(i), a) =>
            /\ Outside(LoadBall(inputBalls, i), a)
            /\ (trace # <<>>) => Outside(InBall(i), a)
            /\ DispatchExecuted =>
                 /\ Outside(OutBall(i), a)
                 /\ OutBall(i).velocity[a] = -InBall(i).velocity[a]
            /\ ReadBack => Outside(LoadBall(computedOutput, i), a)
            \* after two frames the particle is where it was: the two
            \* frames repeat for ever
            /\ (frame % 2 = 0) =>
                 /\ LoadBall(inputBalls, i).position[a] = InitBall(i).position[a]
                 /\ LoadBall(inputBalls, i).velocity[a] = InitBall(i).velocity[a]

\* a moving particle far beyond the boundary has gone through two frames: it
\* is outside, its velocity flipped twice
C17_Witness ==
    /\ frame >= 2
    /\ \E i \in Slots, a \in Axes :
         /\ FarOutside(InitBall(i), a)
         /\ InitBall(i).velocity[a] # 0
         /\ Outside(LoadBall(inputBalls, i), a)
         /\ LoadBall(inputBalls, i).velocity[a] = InitBall(i).velocity[a]
         /\ LoadBall(uploaded, i).velocity[a] = -InitBall(i).velocity[a]

(***************************************************************************)
(* LiveSpec: the frame loop under fair scheduling.  The host runs each     *)
(* enabled step of the loop, the device works off its queue, and the map   *)
(* request and the animation-frame request are eventually answered.        *)
(***************************************************************************)
\* the steps of the script
HostStep ==
    \/ Startup
    \/ Upload
    \/ Dispatch
    \/ CopyOut
    \/ MapAsync
    \/ MapAwait
    \/ Read
    \/ Unmap
    \/ Swap
    \/ PresentWait
    \/ PresentAwait

\* the steps of the device queue
DeviceStep ==
    \/ ExecWriteBuffer
    \/ ExecDispatch
    \/ ExecCopy

LiveSpec ==
    /\ Init
    /\ [][Next]_vars
    /\ WF_vars(HostStep)
    /\ WF_vars(DeviceStep)
    /\ WF_vars(MapResolve)
    /\ WF_vars(AnimationFrame)

\* the loop waits for the map request or for the animation frame
Suspended ==
    \/ pc = "MAP_AWAIT" /\ mapState # "mapped"
    \/ pc = "PRESENT_AWAIT" /\ raf # "fired"

\* C18: no terminal state.  Unless the start-up failed, and every MAP_WAIT
\* and PRESENT_WAIT being answered, a new UPLOAD begins again and again;
\* the loop is suspended at those two points of a frame and nowhere else,
\* and while a wait is unanswered no step of the loop is executed.
C18_NoTerminalState ==
    /\ <>(error \in StartupErrors) \/ []<><<Upload>>_vars
    /\ [](Initialized => (Suspended <=> ~ENABLED HostStep))
    /\ [][Suspended => UNCHANGED <<pc, trace, inputBalls, computedOutput, color,
                                   frame, rendered, encoder>>]_vars

\* the loop went through both waits of two frames and began a third UPLOAD
C18_Witness ==
    /\ frame >= 2
    /\ pc = "DISPATCH"
    /\ trace = <<"UPLOAD">>
    /\ raf = "idle"
    /\ mapState = "unmapped"

(***************************************************************************)
(* The mapped range of the staging buffer (Spec).                          *)
(***************************************************************************)
\* C19: mapped-view scoping.  The host reads the mapped range of the staging
\* buffer only between the answer to MAP_WAIT and the UNMAP of the same
\* frame, and the read never fails; what is rendered and swapped afterwards
\* is the copy taken before UNMAP; the staging buffer is unmapped whenever
\* the loop is at SWAP, at PRESENT_WAIT or at an UPLOAD.
C19_MappedViewScoping ==
    /\ pc \in {"READ", "UNMAP"} => mapState = "mapped"
    /\ pc \in {"UPLOAD", "DISPATCH", "COPY_OUT", "MAP_WAIT", "SWAP",
               "PRESENT_WAIT", "PRESENT_AWAIT"} => mapState = "unmapped"
    /\ pc = "FAILED" => error \in StartupErrors
    /\ pc \in {"UNMAP", "SWAP", "PRESENT_WAIT", "PRESENT_AWAIT"} =>
         computedOutput = buffers.stagingBuffer
    /\ pc \in {"PRESENT_WAIT", "PRESENT_AWAIT"} =>
         /\ rendered.ballData = computedOutput
         /\ inputBalls = computedOutput

\* a later frame was rendered from the copy, the staging buffer unmapped
C19_Witness ==
    /\ pc = "PRESENT_WAIT"
    /\ frame >= 2
    /\ mapState = "unmapped"
    /\ rendered.ballData = computedOutput
    /\ computedOutput = buffers.stagingBuffer
    /\ computedOutput # initBalls

(***************************************************************************)
(* The speed of a particle (Spec).                                         *)
(***************************************************************************)
Speed(b, a) == Abs(b.velocity[a])

\* C20: speed preservation.  For every particle and every frame, the
\* magnitudes of the two velocity components equal their values at
\* initialization; only the sign ever changes.
C20_SpeedPreserved ==
    Initialized =>
        \A i \in Slots, a \in Axes :
            /\ Speed(LoadBall(inputBalls, i), a) = Speed(InitBall(i), a)
            /\ (trace # <<>>) => Speed(InBall(i), a) = Speed(InitBall(i), a)
            /\ DispatchExecuted => Speed(OutBall(i), a) = Speed(InitBall(i), a)
            /\ ReadBack =>
                 Speed(LoadBall(computedOutput, i), a) = Speed(InitBall(i), a)

\* in a later frame a moving particle comes out of the kernel with the sign
\* of a velocity component opposite to the one it was created with
C20_Witness ==
    /\ frame >= 1
    /\ DispatchExecuted
    /\ \E i \in Slots, a \in Axes :
         /\ InitBall(i).velocity[a] # 0
         /\ OutBall(i).velocity[a] = -InitBall(i).velocity[a]
         /\ InBall(i).velocity[a] = InitBall(i).velocity[a]
====
